---- MODULE Spec2Model ----
(***************************************************************************)
(* The Writer monad of the library and its transformer WriterT.            *)
(*                                                                         *)
(* A Writer computation is a zero-argument closure; the combinators build  *)
(* closures and do nothing else, invoking a closure runs its body.  A     *)
(* closure is modelled as a record holding the combinator that built it    *)
(* and what it captured; Invoke runs the body the source gives it.  Every  *)
(* run yields the value returned and the sequence of closure invocations   *)
(* and user-function calls made on the way, in the order JavaScript makes  *)
(* them (an argument expression before the call it is passed to).          *)
(***************************************************************************)
EXTENDS Integers, Sequences, FiniteSets, TLC

\* Nesting depth of combinators around a leaf computation.
MaxDepth == 2

\* Length of the array of predicates handed to allPass, anyPass, nonePass.
MaxPreds == 3

\* The predicates are applied to 0 .. MaxArg.
MaxArg == 8

\* The lattice is taken over 0 .. MaxElem.
MaxElem == 3

(***************************************************************************)
(* JavaScript values.  Every value is a tuple whose first element is a tag *)
(* string, except a log, which is a sequence over Alphabet (the string    *)
(* accumulator, one element per character).                                *)
(***************************************************************************)
Alphabet == {"x", "y"}

Unit == <<"undefined">>

Num(n) == <<"num", n>>

Fn(f) == <<"fn", f>>

Pair(a, b) == <<"pair", a, b>>

Fst(p) == p[2]

Snd(p) == p[3]

IsLog(v) == v = <<>> \/ v[1] \in Alphabet

RECURSIVE Reverse(_)
Reverse(w) == IF w = <<>> THEN <<>> ELSE Reverse(Tail(w)) \o <<Head(w)>>

(***************************************************************************)
(* User-supplied pure functions, by name.                                  *)
(*   inc       n => n + 1                                                  *)
(*   identity  a => a                                                      *)
(*   const c   _ => c                                                      *)
(*   withRev   a => [a, rev]                                               *)
(*   rev       w => the characters of w reversed                           *)
(*   dup       w => w + w                                                  *)
(*   len       w => w.length                                               *)
(*   addX      w => w + "x"                                                *)
(*   constLog w  _ => w                                                    *)
(*   toConstLog  ([a, w]) => [a, _ => w]                                   *)
(*   compose g f  x => g(f(x))                                             *)
(***************************************************************************)
RECURSIVE App(_, _)
App(f, v) ==
  CASE f[1] = "inc" -> Num(v[2] + 1)
    [] f[1] = "identity" -> v
    [] f[1] = "const" -> f[2]
    [] f[1] = "withRev" -> Pair(v, Fn(<<"rev">>))
    [] f[1] = "rev" -> Reverse(v)
    [] f[1] = "dup" -> v \o v
    [] f[1] = "len" -> Num(Len(v))
    [] f[1] = "addX" -> v \o <<"x">>
    [] f[1] = "constLog" -> f[2]
    [] f[1] = "toConstLog" -> Pair(Fst(v), Fn(<<"constLog", Snd(v)>>))
    [] f[1] = "compose" -> App(f[2], App(f[3], v))

\* The result of a step: the value and the invocations and calls it made.
Ret(v) == [v |-> v, tr |-> <<>>]

\* Calling the user function f on a.
Call(f, a) == [v |-> App(f, a), tr |-> << <<"call", f, a>> >>]

\* Step c, then step r; the value is r's.
Then(c, r) == [v |-> r.v, tr |-> c.tr \o r.tr]

(***************************************************************************)
(* Static types, as the signatures of the combinators give them.           *)
(***************************************************************************)
TVoid == <<"void">>

TNum == <<"num">>

TFn == <<"fn">>

TLog == <<"log">>

TLogFn == <<"logfn">>

TPair(a, b) == <<"pair", a, b>>

TError == <<"error">>

RECURSIVE TypeV(_)
TypeV(v) ==
  CASE IsLog(v) -> TLog
    [] v[1] = "undefined" -> TVoid
    [] v[1] = "num" -> TNum
    [] v[1] = "fn" ->
         IF v[2][1] \in {"rev", "dup", "addX", "constLog"} THEN TLogFn ELSE TFn
    [] v[1] = "pair" -> TPair(TypeV(v[2]), TypeV(v[3]))

\* The type of f(a) for a of type ty; TError when f does not accept ty.
RECURSIVE Cod(_, _)
Cod(f, ty) ==
  CASE f[1] = "inc" -> IF ty = TNum THEN TNum ELSE TError
    [] f[1] = "identity" -> ty
    [] f[1] = "const" -> TypeV(f[2])
    [] f[1] = "withRev" -> IF ty = TNum THEN TPair(TNum, TLogFn) ELSE TError
    [] f[1] \in {"rev", "dup", "addX"} -> IF ty = TLog THEN TLog ELSE TError
    [] f[1] = "len" -> IF ty = TLog THEN TNum ELSE TError
    [] f[1] = "constLog" -> TLog
    [] f[1] = "toConstLog" ->
         IF Len(ty) = 3 /\ ty[3] = TLog THEN TPair(ty[2], TLogFn) ELSE TError
    [] f[1] = "compose" ->
         IF Cod(f[3], ty) = TError THEN TError ELSE Cod(f[2], Cod(f[3], ty))

(***************************************************************************)
(* The monoid W handed to getMonad / getPointed / getApply / getChain.     *)
(*   String   the string monoid: concatenation, empty string               *)
(*   BadUnit  concatenation with an "empty" that is not an identity        *)
(***************************************************************************)
Monoids == {"String", "BadUnit"}

W_empty(W) == IF W = "String" THEN <<>> ELSE <<"x">>

W_concat(W, a, b) == a \o b

Lawful(W) == W = "String"

(***************************************************************************)
(* The effect M handed to getWriterM.                                      *)
(*   Identity  of = a => a, map and chain apply the function               *)
(*   Option    some(a) or none; map and chain skip the function on none    *)
(* The argument r is the step that evaluated the first argument of         *)
(* M.map / M.chain; the callback's own steps follow it.                    *)
(***************************************************************************)
Effects == {"Identity", "Option"}

None == <<"none">>

Some(a) == <<"some", a>>

M_of(M, a) == IF M = "Option" THEN Some(a) ELSE a

M_failed(M, mv) == M = "Option" /\ mv = None

M_get(M, mv) == IF M = "Option" THEN mv[2] ELSE mv

M_map(M, r, F(_)) ==
  IF M_failed(M, r.v) THEN r
  ELSE LET y == F(M_get(M, r.v))
       IN  [v |-> M_of(M, y.v), tr |-> r.tr \o y.tr]

M_chain(M, r, K(_)) ==
  IF M_failed(M, r.v) THEN r
  ELSE LET y == K(M_get(M, r.v))
       IN  [v |-> y.v, tr |-> r.tr \o y.tr]

(***************************************************************************)
(* Closures.  A combinator returns a closure and runs nothing: the closure *)
(* records the combinator and the arguments it captured.                   *)
(*   given  a computation handed in by the caller, yielding [a, w]         *)
(*   fail   a computation handed in by the caller whose effect is none     *)
(***************************************************************************)
given(r) == [op |-> "given", r |-> r]

fail(ty) == [op |-> "fail", ty |-> ty]

tell(w) == [op |-> "tell", w |-> w]

listen(fa) == [op |-> "listen", fa |-> fa]

pass(fa) == [op |-> "pass", fa |-> fa]

listens(fa, f) == [op |-> "listens", fa |-> fa, f |-> f]

censor(fa, f) == [op |-> "censor", fa |-> fa, f |-> f]

map(fa, f) == [op |-> "map", fa |-> fa, f |-> f]

of(a) == [op |-> "of", a |-> a]

ap(mab, ma) == [op |-> "ap", mab |-> mab, ma |-> ma]

chain(ma, f) == [op |-> "chain", ma |-> ma, f |-> f]

(***************************************************************************)
(* User-supplied continuations of chain, by name.                          *)
(*   of      a => of(a)                                                    *)
(*   ofInc   n => of(n + 1)                                                *)
(*   tellY   () => tell("y")                                               *)
(*   logInc  n => map(tell("y"), () => n + 1)                              *)
(*   failK   () => a computation whose effect is none                      *)
(*   then f g  a => chain(f(a), g)                                         *)
(***************************************************************************)
RECURSIVE AppK(_, _)
AppK(k, a) ==
  CASE k[1] = "of" -> of(a)
    [] k[1] = "ofInc" -> of(Num(a[2] + 1))
    [] k[1] = "tellY" -> tell(<<"y">>)
    [] k[1] = "logInc" -> map(tell(<<"y">>), <<"const", Num(a[2] + 1)>>)
    [] k[1] = "failK" -> fail(TNum)
    [] k[1] = "then" -> chain(AppK(k[2], a), k[3])

\* Calling the continuation k on a.
CallK(k, a) == [v |-> AppK(k, a), tr |-> << <<"call", k, a>> >>]

RECURSIVE KCod(_, _)
KCod(k, ty) ==
  CASE k[1] = "of" -> ty
    [] k[1] = "ofInc" -> IF ty = TNum THEN TNum ELSE TError
    [] k[1] = "tellY" -> TVoid
    [] k[1] = "logInc" -> IF ty = TNum THEN TNum ELSE TError
    [] k[1] = "failK" -> TNum
    [] k[1] = "then" ->
         IF KCod(k[2], ty) = TError THEN TError ELSE KCod(k[3], KCod(k[2], ty))

RECURSIVE Depth(_)
Depth(t) ==
  CASE t.op \in {"given", "fail", "tell", "of"} -> 0
    [] t.op \in {"listen", "pass", "listens", "censor", "map"} -> 1 + Depth(t.fa)
    [] t.op = "chain" -> 1 + Depth(t.ma)
    [] t.op = "ap" ->
         1 + (IF Depth(t.mab) > Depth(t.ma) THEN Depth(t.mab) ELSE Depth(t.ma))

\* The result type A of a closure of type WriterT<M, W, A>.
RECURSIVE TypeOf(_)
TypeOf(t) ==
  CASE t.op = "given" -> TypeV(Fst(t.r))
    [] t.op = "fail" -> t.ty
    [] t.op = "tell" -> TVoid
    [] t.op = "of" -> TypeV(t.a)
    [] t.op = "listen" -> TPair(TypeOf(t.fa), TLog)
    [] t.op = "pass" -> TypeOf(t.fa)[2]
    [] t.op = "listens" -> TPair(TypeOf(t.fa), Cod(t.f, TLog))
    [] t.op = "censor" -> TypeOf(t.fa)
    [] t.op = "map" -> Cod(t.f, TypeOf(t.fa))
    [] t.op = "chain" -> KCod(t.f, TypeOf(t.ma))
    [] t.op = "ap" -> TNum

RECURSIVE Invoke(_, _)

(***************************************************************************)
(* getWriterM(M): the body of each closure.  I is the instance in use:    *)
(* I.M the effect, I.W the monoid.                                         *)
(***************************************************************************)
WriterT_given(I, t) == Ret(M_of(I.M, t.r))

WriterT_fail(I, t) == Ret(None)

\* Mutants of the bodies below, each a slip the source could have made.
WriterT_tell_concatEmpty(I, t) ==
  Ret(M_of(I.M, Pair(Unit, W_concat(I.W, W_empty(I.W), t.w))))

WriterT_listen_dropsLog(I, t) ==
  M_map(I.M, Invoke(I, t.fa),
        LAMBDA p : Ret(Pair(Pair(Fst(p), Snd(p)), W_empty(I.W))))

WriterT_censor_keepsLog(I, t) ==
  M_map(I.M, Invoke(I, t.fa),
        LAMBDA p : LET c == Call(t.f, Snd(p))
                   IN  [v |-> Pair(Fst(p), Snd(p)), tr |-> c.tr])

WriterT_ap_maFirst(I, t) ==
  M_chain(I.M, Invoke(I, t.ma),
          LAMBDA q :
            M_map(I.M, Invoke(I, t.mab),
                  LAMBDA p : LET c == Call(Fst(p)[2], Fst(q))
                             IN  [v |-> Pair(c.v, W_concat(I.W, Snd(p), Snd(q))),
                                  tr |-> c.tr]))

WriterT_ap_runsBoth(I, t) ==
  LET rf == Invoke(I, t.mab)
      ra == Invoke(I, t.ma)
  IN  M_chain(I.M, [v |-> rf.v, tr |-> rf.tr \o ra.tr],
              LAMBDA p :
                M_map(I.M, [v |-> ra.v, tr |-> <<>>],
                      LAMBDA q : LET c == Call(Fst(p)[2], Fst(q))
                                 IN  [v |-> Pair(c.v, W_concat(I.W, Snd(p), Snd(q))),
                                      tr |-> c.tr]))

WriterT_chain_swapped(I, t) ==
  M_chain(I.M, Invoke(I, t.ma),
          LAMBDA p :
            LET k == CallK(t.f, Fst(p))
            IN  M_map(I.M, Then(k, Invoke(I, k.v)),
                      LAMBDA q : Ret(Pair(Fst(q), W_concat(I.W, Snd(q), Snd(p))))))

WriterT_map(I, t) ==
  M_map(I.M, Invoke(I, t.fa),
        LAMBDA p : LET c == Call(t.f, Fst(p))
                   IN  [v |-> Pair(c.v, Snd(p)), tr |-> c.tr])

WriterT_evalWriter(I, fa) == M_map(I.M, Invoke(I, fa), LAMBDA p : Ret(Fst(p)))

WriterT_execWriter(I, fa) == M_map(I.M, Invoke(I, fa), LAMBDA p : Ret(Snd(p)))

WriterT_tell(I, t) == Ret(M_of(I.M, Pair(Unit, t.w)))

WriterT_listen(I, t) ==
  M_map(I.M, Invoke(I, t.fa),
        LAMBDA p : Ret(Pair(Pair(Fst(p), Snd(p)), Snd(p))))

WriterT_pass(I, t) ==
  M_map(I.M, Invoke(I, t.fa),
        LAMBDA p : LET c == Call(Snd(Fst(p))[2], Snd(p))
                   IN  [v |-> Pair(Fst(Fst(p)), c.v), tr |-> c.tr])

WriterT_listens(I, t) ==
  M_map(I.M, Invoke(I, t.fa),
        LAMBDA p : LET c == Call(t.f, Snd(p))
                   IN  [v |-> Pair(Pair(Fst(p), c.v), Snd(p)), tr |-> c.tr])

WriterT_censor(I, t) ==
  M_map(I.M, Invoke(I, t.fa),
        LAMBDA p : LET c == Call(t.f, Snd(p))
                   IN  [v |-> Pair(Fst(p), c.v), tr |-> c.tr])

WriterT_of(I, t) == Ret(M_of(I.M, Pair(t.a, W_empty(I.W))))

WriterT_ap(I, t) ==
  M_chain(I.M, Invoke(I, t.mab),
          LAMBDA p :
            M_map(I.M, Invoke(I, t.ma),
                  LAMBDA q : LET c == Call(Fst(p)[2], Fst(q))
                             IN  [v |-> Pair(c.v, W_concat(I.W, Snd(p), Snd(q))),
                                  tr |-> c.tr]))

WriterT_chain(I, t) ==
  M_chain(I.M, Invoke(I, t.ma),
          LAMBDA p :
            LET k == CallK(t.f, Fst(p))
            IN  M_map(I.M, Then(k, Invoke(I, k.v)),
                      LAMBDA q : Ret(Pair(Fst(q), W_concat(I.W, Snd(p), Snd(q))))))

(***************************************************************************)
(* The plain Writer module: the body of each closure.  I.W is the monoid   *)
(* (for ap, the semigroup) handed to the instance constructor.             *)
(***************************************************************************)
\* Mutants of the bodies below, each a slip the source could have made.
Writer_pass_keepsLog(I, t) ==
  LET r == Invoke(I, t.fa)
      c == Call(Snd(Fst(r.v))[2], Snd(r.v))
  IN  [v |-> Pair(Fst(Fst(r.v)), Snd(r.v)), tr |-> r.tr \o c.tr]

Writer_pass_keepsFunction(I, t) ==
  LET r == Invoke(I, t.fa)
      c == Call(Snd(Fst(r.v))[2], Snd(r.v))
  IN  [v |-> Pair(Fst(r.v), c.v), tr |-> r.tr \o c.tr]

Writer_censor_keepsLog(I, t) ==
  LET r == Invoke(I, t.fa)
      c == Call(t.f, Snd(r.v))
  IN  [v |-> Pair(Fst(r.v), Snd(r.v)), tr |-> r.tr \o c.tr]

Writer_map_dropsLog(I, t) ==
  LET r == Invoke(I, t.fa)
      c == Call(t.f, Fst(r.v))
  IN  [v |-> Pair(c.v, W_empty(I.W)), tr |-> r.tr \o c.tr]

Writer_map_doublesLog(I, t) ==
  LET r == Invoke(I, t.fa)
      c == Call(t.f, Fst(r.v))
  IN  [v |-> Pair(c.v, W_concat(I.W, Snd(r.v), Snd(r.v))), tr |-> r.tr \o c.tr]

Writer_of_emptyString(I, t) == Ret(Pair(t.a, <<>>))

Writer_chain_dropsSecond(I, t) ==
  LET r1 == Invoke(I, t.ma)
      k == CallK(t.f, Fst(r1.v))
      r2 == Invoke(I, k.v)
  IN  [v |-> Pair(Fst(r2.v), Snd(r1.v)), tr |-> r1.tr \o k.tr \o r2.tr]

Writer_chain_swapped(I, t) ==
  LET r1 == Invoke(I, t.ma)
      k == CallK(t.f, Fst(r1.v))
      r2 == Invoke(I, k.v)
  IN  [v |-> Pair(Fst(r2.v), W_concat(I.W, Snd(r2.v), Snd(r1.v))),
       tr |-> r1.tr \o k.tr \o r2.tr]

Writer_chain_dropsFirst(I, t) ==
  LET r1 == Invoke(I, t.ma)
      k == CallK(t.f, Fst(r1.v))
      r2 == Invoke(I, k.v)
  IN  [v |-> Pair(Fst(r2.v), Snd(r2.v)), tr |-> r1.tr \o k.tr \o r2.tr]

Writer_given(I, t) == Ret(t.r)

Writer_tell(I, t) == Ret(Pair(Unit, t.w))

Writer_listen(I, t) ==
  LET r == Invoke(I, t.fa)
  IN  [v |-> Pair(Pair(Fst(r.v), Snd(r.v)), Snd(r.v)), tr |-> r.tr]

Writer_pass(I, t) ==
  LET r == Invoke(I, t.fa)
      c == Call(Snd(Fst(r.v))[2], Snd(r.v))
  IN  [v |-> Pair(Fst(Fst(r.v)), c.v), tr |-> r.tr \o c.tr]

Writer_listens(I, t) ==
  LET r == Invoke(I, t.fa)
      c == Call(t.f, Snd(r.v))
  IN  [v |-> Pair(Pair(Fst(r.v), c.v), Snd(r.v)), tr |-> r.tr \o c.tr]

Writer_censor(I, t) ==
  LET r == Invoke(I, t.fa)
      c == Call(t.f, Snd(r.v))
  IN  [v |-> Pair(Fst(r.v), c.v), tr |-> r.tr \o c.tr]

Writer_map(I, t) ==
  LET r == Invoke(I, t.fa)
      c == Call(t.f, Fst(r.v))
  IN  [v |-> Pair(c.v, Snd(r.v)), tr |-> r.tr \o c.tr]

Writer_of(I, t) == Ret(Pair(t.a, W_empty(I.W)))

Writer_ap_swapped(I, t) ==
  LET r1 == Invoke(I, t.mab)
      r2 == Invoke(I, t.ma)
      c == Call(Fst(r1.v)[2], Fst(r2.v))
  IN  [v |-> Pair(c.v, W_concat(I.W, Snd(r2.v), Snd(r1.v))),
       tr |-> r1.tr \o r2.tr \o c.tr]

Writer_ap(I, t) ==
  LET r1 == Invoke(I, t.mab)
      r2 == Invoke(I, t.ma)
      c == Call(Fst(r1.v)[2], Fst(r2.v))
  IN  [v |-> Pair(c.v, W_concat(I.W, Snd(r1.v), Snd(r2.v))),
       tr |-> r1.tr \o r2.tr \o c.tr]

Writer_chain(I, t) ==
  LET r1 == Invoke(I, t.ma)
      k == CallK(t.f, Fst(r1.v))
      r2 == Invoke(I, k.v)
  IN  [v |-> Pair(Fst(r2.v), W_concat(I.W, Snd(r1.v), Snd(r2.v))),
       tr |-> r1.tr \o k.tr \o r2.tr]

Writer_evaluate(I, fa) ==
  LET r == Invoke(I, fa) IN [v |-> Fst(r.v), tr |-> r.tr]

Writer_execute(I, fa) ==
  LET r == Invoke(I, fa) IN [v |-> Snd(r.v), tr |-> r.tr]

Writer_evalWriter(I, fa) ==
  LET r == Invoke(I, fa) IN [v |-> Fst(r.v), tr |-> r.tr]

Writer_execWriter(I, fa) ==
  LET r == Invoke(I, fa) IN [v |-> Snd(r.v), tr |-> r.tr]

(***************************************************************************)
(* Invoking the closure t: the invocation itself, then the body that the   *)
(* module in use (I.lib) gave the closure.                                 *)
(***************************************************************************)
Body(I, t) ==
  IF I.lib = "WriterT"
  THEN CASE t.op = "given" -> WriterT_given(I, t)
         [] t.op = "fail" -> WriterT_fail(I, t)
         [] t.op = "tell" -> WriterT_tell(I, t)
         [] t.op = "listen" -> WriterT_listen(I, t)
         [] t.op = "pass" -> WriterT_pass(I, t)
         [] t.op = "listens" -> WriterT_listens(I, t)
         [] t.op = "censor" -> WriterT_censor(I, t)
         [] t.op = "map" -> WriterT_map(I, t)
         [] t.op = "of" -> WriterT_of(I, t)
         [] t.op = "ap" -> WriterT_ap(I, t)
         [] t.op = "chain" -> WriterT_chain(I, t)
  ELSE CASE t.op = "given" -> Writer_given(I, t)
         [] t.op = "tell" -> Writer_tell(I, t)
         [] t.op = "listen" -> Writer_listen(I, t)
         [] t.op = "pass" -> Writer_pass(I, t)
         [] t.op = "listens" -> Writer_listens(I, t)
         [] t.op = "censor" -> Writer_censor(I, t)
         [] t.op = "map" -> Writer_map(I, t)
         [] t.op = "of" -> Writer_of(I, t)
         [] t.op = "ap" -> Writer_ap(I, t)
         [] t.op = "chain" -> Writer_chain(I, t)

Invoke(I, t) ==
  LET r == Body(I, t)
  IN  [v |-> r.v, tr |-> << <<"invoke", t>> >> \o r.tr]

(***************************************************************************)
(* Predicate helpers: allPass, anyPass, nonePass.  A predicate is a term:  *)
(* a named predicate on numbers, or what the monoids and flow build.       *)
(*   lt3   n => n < 3        gt7  n => n > 7        even  n => n % 2 === 0 *)
(***************************************************************************)
Preds == {<<"lt3">>, <<"gt7">>, <<"even">>}

invert(b) == ~b

RECURSIVE PredApp(_, _)
PredApp(p, x) ==
  CASE p[1] = "lt3" -> x < 3
    [] p[1] = "gt7" -> x > 7
    [] p[1] = "even" -> x % 2 = 0
    [] p[1] = "constTrue" -> TRUE
    [] p[1] = "constFalse" -> FALSE
    [] p[1] = "or" -> PredApp(p[2], x) \/ PredApp(p[3], x)
    [] p[1] = "and" -> PredApp(p[2], x) /\ PredApp(p[3], x)
    [] p[1] = "flowInvert" -> invert(PredApp(p[2], x))

getMonoidAny == [empty |-> <<"constFalse">>, op |-> "or"]

getMonoidAll == [empty |-> <<"constTrue">>, op |-> "and"]

RECURSIVE concatAllFrom(_, _, _)
concatAllFrom(Mo, acc, fs) ==
  IF fs = <<>> THEN acc
  ELSE concatAllFrom(Mo, <<Mo.op, acc, Head(fs)>>, Tail(fs))

concatAll(Mo, fs) == concatAllFrom(Mo, Mo.empty, fs)

allPass(fs) == concatAll(getMonoidAll, fs)

anyPass(fs) == concatAll(getMonoidAny, fs)

nonePass_noInvert(fs) == anyPass(fs)

nonePass(fs) == <<"flowInvert", anyPass(fs)>>

(***************************************************************************)
(* getMinMaxBoundedDistributiveLattice over an order O on numbers.         *)
(*   asc   the order of the numbers        desc  its reverse               *)
(***************************************************************************)
Ords == {"asc", "desc"}

compare(O, a, b) ==
  IF a = b THEN 0
  ELSE IF (O = "asc") = (a < b) THEN -1 ELSE 1

leq(O, a, b) == compare(O, a, b) < 1

Ord_min(O, a, b) == IF a = b \/ compare(O, a, b) < 1 THEN a ELSE b

Ord_max(O, a, b) == IF a = b \/ compare(O, a, b) > -1 THEN a ELSE b

getMinMaxDistributiveLattice(O) == [meet |-> <<"min", O>>, join |-> <<"max", O>>]

\* Calling a lattice operation.
Apply2(op, a, b) ==
  IF op[1] = "min" THEN Ord_min(op[2], a, b) ELSE Ord_max(op[2], a, b)

getMinMaxBoundedDistributiveLattice_swapped(O, min, max) ==
  LET L == getMinMaxDistributiveLattice(O)
  IN  [join |-> L.join, meet |-> L.meet, zero |-> max, one |-> min]

getMinMaxBoundedDistributiveLattice(O, min, max) ==
  LET L == getMinMaxDistributiveLattice(O)
  IN  [join |-> L.join, meet |-> L.meet, zero |-> min, one |-> max]

(***************************************************************************)
(* A client of the library: it picks a module, an effect and a monoid,     *)
(* builds a computation one combinator at a time and runs it.  inp and ret *)
(* are the input and the result of a call of a pure helper (the predicate  *)
(* helpers, the lattice); they are unused while the client builds and runs *)
(* Writer computations.                                                    *)
(***************************************************************************)
VARIABLES lib, M, W, cur, res, inp, ret

vars == <<lib, M, W, cur, res, inp, ret>>

NoInput == [kind |-> "none"]

NoRet == [fn |-> "none"]

Inst == [lib |-> lib, M |-> M, W |-> W]

NoComp == [op |-> "none"]

NotRun == [kind |-> "none", v |-> <<>>, tr |-> <<>>]

\* The inputs the client draws from.
TellLogs == {<<"x">>, <<"y">>}

OfValues == {Num(1), Fn(<<"inc">>), Pair(Num(1), Fn(<<"rev">>))}

GivenResults ==
  { Pair(Num(0), <<"x", "y">>),
    Pair(Fn(<<"inc">>), <<"x">>),
    Pair(Pair(Num(1), Fn(<<"dup">>)), <<"x", "y">>) }

FailTypes == {TNum, TFn}

MapFns == {<<"inc">>, <<"identity">>, <<"withRev">>, <<"const", Fn(<<"inc">>)>>}

ListensFns == {<<"len">>, <<"rev">>}

\* Two functions that do not commute, so the order of two censors shows.
CensorFns == {<<"rev">>, <<"addX">>}

Conts ==
  {<<"of">>, <<"ofInc">>, <<"tellY">>, <<"logInc">>}
    \cup (IF M = "Option" THEN {<<"failK">>} ELSE {})

ArgComps ==
  {of(Num(1)), given(Pair(Num(0), <<"y">>))}
    \cup (IF M = "Option" THEN {fail(TNum)} ELSE {})

FnComps ==
  {of(Fn(<<"inc">>)), given(Pair(Fn(<<"inc">>), <<"x">>))}
    \cup (IF M = "Option" THEN {fail(TFn)} ELSE {})

Built == cur.op # "none"

CanWrap == Built /\ Depth(cur) < MaxDepth

IsPassable(ty) == Len(ty) = 3 /\ ty[1] = "pair" /\ ty[3] = TLogFn

Init ==
  /\ lib \in {"Writer", "WriterT"}
  /\ M \in Effects
  /\ lib = "Writer" => M = "Identity"
  /\ W \in Monoids
  /\ cur = NoComp
  /\ res = NotRun
  /\ inp = NoInput
  /\ ret = NoRet

\* A slip the combinators could have made: running the computation while
\* building it.
Build_eager(t) ==
  /\ cur' = t
  /\ res' = [kind |-> "none", v |-> <<>>, tr |-> Invoke(Inst, t).tr]
  /\ UNCHANGED <<lib, M, W, inp, ret>>

Build(t) ==
  /\ cur' = t
  /\ res' = NotRun
  /\ UNCHANGED <<lib, M, W, inp, ret>>

\* The client starts from a computation it is given or from tell or of.
Given == ~Built /\ \E r \in GivenResults : Build(given(r))

Fail == ~Built /\ M = "Option" /\ \E ty \in FailTypes : Build(fail(ty))

Tell == ~Built /\ \E w \in TellLogs : Build(tell(w))

Of == ~Built /\ \E a \in OfValues : Build(of(a))

Listen == CanWrap /\ Build(listen(cur))

Pass == CanWrap /\ IsPassable(TypeOf(cur)) /\ Build(pass(cur))

Listens == CanWrap /\ \E f \in ListensFns : Build(listens(cur, f))

Censor == CanWrap /\ \E f \in CensorFns : Build(censor(cur, f))

Map ==
  /\ CanWrap
  /\ \E f \in MapFns : Cod(f, TypeOf(cur)) # TError /\ Build(map(cur, f))

Chain ==
  /\ CanWrap
  /\ \E k \in Conts : KCod(k, TypeOf(cur)) # TError /\ Build(chain(cur, k))

\* pass(map(listen(fa), ([a, w]) => [a, _ => w])), built in one expression.
RoundTrip == CanWrap /\ Build(pass(map(listen(cur), <<"toConstLog">>)))

ApFn == CanWrap /\ TypeOf(cur) = TFn /\ \E ma \in ArgComps : Build(ap(cur, ma))

ApArg == CanWrap /\ TypeOf(cur) = TNum /\ \E mab \in FnComps : Build(ap(mab, cur))

Ran(kind, r) ==
  /\ res' = [kind |-> kind, v |-> r.v, tr |-> r.tr]
  /\ UNCHANGED <<lib, M, W, cur, inp, ret>>

Run == Built /\ Ran("invoke", Invoke(Inst, cur))

EvalWriter ==
  /\ Built
  /\ Ran("eval", IF lib = "WriterT" THEN WriterT_evalWriter(Inst, cur)
                 ELSE Writer_evalWriter(Inst, cur))

ExecWriter ==
  /\ Built
  /\ Ran("exec", IF lib = "WriterT" THEN WriterT_execWriter(Inst, cur)
                 ELSE Writer_execWriter(Inst, cur))

Evaluate == Built /\ lib = "Writer" /\ Ran("evaluate", Writer_evaluate(Inst, cur))

Execute == Built /\ lib = "Writer" /\ Ran("execute", Writer_execute(Inst, cur))

Next ==
  \/ Given
  \/ Fail
  \/ Tell
  \/ Of
  \/ Listen
  \/ Pass
  \/ Listens
  \/ Censor
  \/ Map
  \/ Chain
  \/ RoundTrip
  \/ ApFn
  \/ ApArg
  \/ Run
  \/ EvalWriter
  \/ ExecWriter
  \/ Evaluate
  \/ Execute

Spec == Init /\ [][Next]_vars

(***************************************************************************)
(* A client of the pure helpers: it is handed an input and calls one.      *)
(***************************************************************************)
SeqsUpTo(S, n) == UNION {[1..k -> S] : k \in 0..n}

InitPure ==
  /\ lib = "Writer"
  /\ M = "Identity"
  /\ W = "String"
  /\ cur = NoComp
  /\ res = NotRun
  /\ ret = NoRet
  /\ \/ \E fs \in SeqsUpTo(Preds, MaxPreds), x \in 0..MaxArg :
          inp = [kind |-> "preds", fs |-> fs, x |-> x]
     \/ \E O \in Ords, min \in 0..MaxElem, max \in 0..MaxElem, a \in 0..MaxElem :
          inp = [kind |-> "lattice", O |-> O, min |-> min, max |-> max, a |-> a]

Returned(r) ==
  /\ ret' = r
  /\ UNCHANGED <<lib, M, W, cur, res, inp>>

AllPass ==
  /\ inp.kind = "preds"
  /\ Returned([fn |-> "allPass", v |-> PredApp(allPass(inp.fs), inp.x)])

AnyPass ==
  /\ inp.kind = "preds"
  /\ Returned([fn |-> "anyPass", v |-> PredApp(anyPass(inp.fs), inp.x)])

NonePass ==
  /\ inp.kind = "preds"
  /\ Returned([fn |-> "nonePass", v |-> PredApp(nonePass(inp.fs), inp.x)])

\* join(a, zero) in the lattice built for inp.
JoinZero ==
  /\ inp.kind = "lattice"
  /\ LET B == getMinMaxBoundedDistributiveLattice(inp.O, inp.min, inp.max)
     IN  Returned([fn |-> "join", v |-> Apply2(B.join, inp.a, B.zero),
                   zero |-> B.zero, one |-> B.one])

\* meet(a, one) in the lattice built for inp.
MeetOne ==
  /\ inp.kind = "lattice"
  /\ LET B == getMinMaxBoundedDistributiveLattice(inp.O, inp.min, inp.max)
     IN  Returned([fn |-> "meet", v |-> Apply2(B.meet, inp.a, B.one),
                   zero |-> B.zero, one |-> B.one])

NextPure ==
  \/ AllPass
  \/ AnyPass
  \/ NonePass
  \/ JoinZero
  \/ MeetOne

SpecPure == InitPure /\ [][NextPure]_vars

(***************************************************************************)
(* Properties.  res holds the last run of cur; the runs of the             *)
(* computations cur was built from are taken with Sub.                     *)
(***************************************************************************)
Sub(t) == Invoke(Inst, t)

Ok(r) == ~M_failed(M, r.v)

Out(r) == M_get(M, r.v)

Invoked(t) == << <<"invoke", t>> >>

Called(f, a) == << <<"call", f, a>> >>

\* C1: chain(ma, f) runs ma, then f on ma's result a, then f(a), and yields
\* f(a)'s result with the log W.concat(w1, w2), ma's log on the left; with
\* the string monoid execWriter(chain(tell("x"), () => tell("y"))) is "xy".
C1_ChainOrder ==
  /\ (res.kind = "invoke" /\ cur.op = "chain" /\ Ok(Sub(cur.ma))) =>
       LET r1 == Sub(cur.ma)
           a == Fst(Out(r1))
           r2 == Sub(AppK(cur.f, a))
       IN  /\ res.tr = Invoked(cur) \o r1.tr \o Called(cur.f, a) \o r2.tr
           /\ Ok(r2) =>
                res.v = M_of(M, Pair(Fst(Out(r2)),
                                     W_concat(W, Snd(Out(r1)), Snd(Out(r2)))))
  /\ (res.kind = "exec" /\ W = "String"
        /\ cur = chain(tell(<<"x">>), <<"tellY">>)) =>
       res.v = M_of(M, <<"x", "y">>)

C1_Witness ==
  /\ res.kind = "invoke"
  /\ cur.op = "chain"
  /\ cur.f = <<"logInc">>
  /\ Ok(Sub(cur.ma))
  /\ Snd(Out(Sub(cur.ma))) = <<"x", "y">>
  /\ Snd(Out(res)) = <<"x", "y", "y">>

\* C2: ap(mab, ma) runs mab before ma, yields f(a), and yields the log
\* W.concat(w1, w2) with mab's log on the left; with the string monoid a
\* function logged "x" applied to a value logged "y" gives the log "xy".
C2_ApOrder ==
  /\ (res.kind = "invoke" /\ cur.op = "ap" /\ Ok(Sub(cur.mab))) =>
       LET r1 == Sub(cur.mab)
           r2 == Sub(cur.ma)
           f == Fst(Out(r1))[2]
       IN  IF Ok(r2)
           THEN /\ res.tr = Invoked(cur) \o r1.tr \o r2.tr
                              \o Called(f, Fst(Out(r2)))
                /\ res.v = M_of(M, Pair(App(f, Fst(Out(r2))),
                                        W_concat(W, Snd(Out(r1)), Snd(Out(r2)))))
           ELSE res.tr = Invoked(cur) \o r1.tr \o r2.tr
  /\ (res.kind = "invoke" /\ W = "String"
        /\ cur = ap(given(Pair(Fn(<<"inc">>), <<"x">>)),
                    given(Pair(Num(0), <<"y">>)))) =>
       res.v = M_of(M, Pair(Num(1), <<"x", "y">>))

C2_Witness ==
  /\ res.kind = "invoke"
  /\ cur.op = "ap"
  /\ cur.mab.op = "map"
  /\ Ok(Sub(cur.mab))
  /\ Ok(Sub(cur.ma))
  /\ Snd(Out(Sub(cur.mab))) = <<"x">>
  /\ Snd(Out(Sub(cur.ma))) = <<"y">>
  /\ res.v = M_of(M, Pair(Num(1), <<"x", "y">>))

\* C3: of(a) yields the result a and the log W.empty, lifted with M.of.
C3_OfEmpty ==
  (res.kind = "invoke" /\ cur.op = "of") =>
    /\ res.v = M_of(M, Pair(cur.a, W_empty(W)))
    /\ W = "String" => Snd(Out(res)) = <<>>

C3_Witness ==
  /\ res.kind = "invoke"
  /\ cur = of(Num(1))
  /\ M = "Option"
  /\ res.v = Some(Pair(Num(1), <<>>))

\* C4: tell(w) yields the unit result and the log w itself; no monoid
\* operation is applied to w.
C4_TellExact ==
  (res.kind = "invoke" /\ cur.op = "tell") =>
    /\ Ok(res)
    /\ Fst(Out(res)) = Unit
    /\ Snd(Out(res)) = cur.w

C4_Witness ==
  /\ res.kind = "invoke"
  /\ cur = tell(<<"y">>)
  /\ W = "BadUnit"
  /\ Out(res) = Pair(Unit, <<"y">>)

\* C5: map(fa, f) yields f(a) and the log of fa unchanged.
C5_MapKeepsLog ==
  (res.kind = "invoke" /\ cur.op = "map" /\ Ok(Sub(cur.fa))) =>
    LET p == Out(Sub(cur.fa))
    IN  /\ Ok(res)
        /\ Fst(Out(res)) = App(cur.f, Fst(p))
        /\ Snd(Out(res)) = Snd(p)

C5_Witness ==
  /\ res.kind = "invoke"
  /\ cur.op = "map"
  /\ cur.f = <<"inc">>
  /\ Ok(Sub(cur.fa))
  /\ Out(Sub(cur.fa)) = Pair(Num(0), <<"y", "x">>)
  /\ Out(res) = Pair(Num(1), <<"y", "x">>)

\* C6: listen(fa) yields the result pair [a, w] and the same log w.
C6_ListenExposes ==
  (res.kind = "invoke" /\ cur.op = "listen" /\ Ok(Sub(cur.fa))) =>
    LET p == Out(Sub(cur.fa))
    IN  res.v = M_of(M, Pair(Pair(Fst(p), Snd(p)), Snd(p)))

C6_Witness ==
  /\ res.kind = "invoke"
  /\ cur.op = "listen"
  /\ cur.fa.op = "chain"
  /\ Ok(res)
  /\ Snd(Out(res)) = <<"x", "y">>
  /\ Snd(Fst(Out(res))) = <<"x", "y">>

\* C7: pass(fa), fa yielding [[a, f], w], yields the result a and the log
\* f(w); f is called once, on the log of fa's own run.
C7_PassApplies ==
  (res.kind = "invoke" /\ cur.op = "pass" /\ Ok(Sub(cur.fa))) =>
    LET r1 == Sub(cur.fa)
        a == Fst(Fst(Out(r1)))
        f == Snd(Fst(Out(r1)))[2]
        w == Snd(Out(r1))
    IN  /\ res.v = M_of(M, Pair(a, App(f, w)))
        /\ res.tr = Invoked(cur) \o r1.tr \o Called(f, w)

C7_Witness ==
  /\ res.kind = "invoke"
  /\ cur.op = "pass"
  /\ Ok(Sub(cur.fa))
  /\ Out(Sub(cur.fa)) = Pair(Pair(Num(0), Fn(<<"rev">>)), <<"x", "y">>)
  /\ Out(res) = Pair(Num(0), <<"y", "x">>)

\* C8: censor(fa, f) yields the result a unchanged and the log f(w).
C8_CensorReplaces ==
  (res.kind = "invoke" /\ cur.op = "censor" /\ Ok(Sub(cur.fa))) =>
    LET p == Out(Sub(cur.fa))
    IN  res.v = M_of(M, Pair(Fst(p), App(cur.f, Snd(p))))

C8_Witness ==
  /\ res.kind = "invoke"
  /\ cur.op = "censor"
  /\ cur.f = <<"rev">>
  /\ Ok(Sub(cur.fa))
  /\ Out(Sub(cur.fa)) = Pair(Num(0), <<"x", "y">>)
  /\ Out(res) = Pair(Num(0), <<"y", "x">>)

\* C9: monad left identity: with a lawful monoid, chain(of(a), f) yields the
\* result and the log of f(a); with the string monoid
\* evalWriter(chain(of(1), n => of(n + 1))) is 2 and the log is "".
C9_LeftIdentity ==
  /\ (res.kind = "invoke" /\ cur.op = "chain" /\ cur.ma.op = "of" /\ Lawful(W)) =>
       res.v = Sub(AppK(cur.f, cur.ma.a)).v
  /\ (W = "String" /\ cur = chain(of(Num(1)), <<"ofInc">>)) =>
       /\ res.kind = "eval" => res.v = M_of(M, Num(2))
       /\ res.kind = "exec" => res.v = M_of(M, <<>>)

C9_Witness ==
  /\ res.kind = "invoke"
  /\ cur.op = "chain"
  /\ cur.ma = of(Num(1))
  /\ cur.f = <<"logInc">>
  /\ Lawful(W)
  /\ Out(res) = Pair(Num(2), <<"y">>)

\* C10: monad right identity: with a lawful monoid, chain(ma, of) yields the
\* result and the log of ma.
C10_RightIdentity ==
  (res.kind = "invoke" /\ cur.op = "chain" /\ cur.f = <<"of">> /\ Lawful(W)) =>
    res.v = Sub(cur.ma).v

C10_Witness ==
  /\ res.kind = "invoke"
  /\ cur.op = "chain"
  /\ cur.f = <<"of">>
  /\ cur.ma.op = "censor"
  /\ Lawful(W)
  /\ Ok(res)
  /\ Out(res) = Pair(Num(0), <<"y", "x">>)

\* C11: monad associativity: chain(chain(ma, f), g) yields the result and
\* the log of chain(ma, a => chain(f(a), g)), and the three logs are combined
\* in the order ma, f(a), g(b).  Both monoids drawn have an associative
\* concat.
C11_Associativity ==
  (res.kind = "invoke" /\ cur.op = "chain" /\ cur.ma.op = "chain") =>
    LET ma == cur.ma.ma
        f == cur.ma.f
        g == cur.f
    IN  /\ res.v = Sub(chain(ma, <<"then", f, g>>)).v
        /\ Ok(res) =>
             LET r1 == Sub(ma)
                 r2 == Sub(AppK(f, Fst(Out(r1))))
                 r3 == Sub(AppK(g, Fst(Out(r2))))
             IN  Snd(Out(res)) =
                   W_concat(W, W_concat(W, Snd(Out(r1)), Snd(Out(r2))),
                            Snd(Out(r3)))

C11_Witness ==
  /\ res.kind = "invoke"
  /\ cur.op = "chain"
  /\ cur.ma.op = "chain"
  /\ cur.ma.ma = tell(<<"x">>)
  /\ cur.ma.f = <<"tellY">>
  /\ cur.f = <<"of">>
  /\ W = "String"
  /\ Out(res) = Pair(Unit, <<"x", "y">>)
  /\ Out(Sub(chain(cur.ma.ma, <<"then", cur.ma.f, cur.f>>))) = Pair(Unit, <<"x", "y">>)

\* C12: functor composition: map(map(fa, f), g) yields the result and the
\* log of map(fa, x => g(f(x))).
C12_MapComposition ==
  (res.kind = "invoke" /\ cur.op = "map" /\ cur.fa.op = "map") =>
    res.v = Sub(map(cur.fa.fa, <<"compose", cur.f, cur.fa.f>>)).v

C12_Witness ==
  /\ res.kind = "invoke"
  /\ cur.op = "map"
  /\ cur.f = <<"withRev">>
  /\ cur.fa.op = "map"
  /\ cur.fa.f = <<"inc">>
  /\ Out(res) = Pair(Pair(Num(1), Fn(<<"rev">>)), <<"x", "y">>)
  /\ Out(Sub(map(cur.fa.fa, <<"compose", cur.f, cur.fa.f>>))) = Out(res)

\* C13: listen/pass round trip: pass(map(listen(fa), ([a, w]) => [a, _ => w]))
\* yields the result and the log of fa.
C13_ListenPassRoundTrip ==
  (res.kind = "invoke" /\ cur.op = "pass" /\ cur.fa.op = "map"
     /\ cur.fa.f = <<"toConstLog">> /\ cur.fa.fa.op = "listen") =>
    res.v = Sub(cur.fa.fa.fa).v

C13_Witness ==
  /\ res.kind = "invoke"
  /\ cur.op = "pass"
  /\ cur.fa.op = "map"
  /\ cur.fa.f = <<"toConstLog">>
  /\ cur.fa.fa.op = "listen"
  /\ cur.fa.fa.fa.op = "censor"
  /\ Out(Sub(cur.fa.fa.fa)) = Pair(Num(0), <<"x", "y", "x">>)
  /\ Out(res) = Pair(Num(0), <<"x", "y", "x">>)

\* C14: censor composition: censor(censor(fa, f), g) yields the result and
\* the log of censor(fa, x => g(f(x))): the log is g(f(w)), the inner
\* censor's function applied first.
C14_CensorComposition ==
  (res.kind = "invoke" /\ cur.op = "censor" /\ cur.fa.op = "censor") =>
    LET fa == cur.fa.fa
        f == cur.fa.f
        g == cur.f
    IN  /\ res.v = Sub(censor(fa, <<"compose", g, f>>)).v
        /\ Ok(res) =>
             /\ Fst(Out(res)) = Fst(Out(Sub(fa)))
             /\ Snd(Out(res)) = App(g, App(f, Snd(Out(Sub(fa)))))

C14_Witness ==
  /\ res.kind = "invoke"
  /\ cur.op = "censor"
  /\ cur.f = <<"rev">>
  /\ cur.fa.op = "censor"
  /\ cur.fa.f = <<"addX">>
  /\ Out(Sub(cur.fa.fa)) = Pair(Num(0), <<"x", "y">>)
  /\ Out(res) = Pair(Num(0), <<"x", "y", "x">>)
  /\ App(<<"compose", cur.fa.f, cur.f>>, <<"x", "y">>) = <<"y", "x", "x">>

\* C15: nonePass(fs)(x) is true exactly when no predicate of fs is true on
\* x, that is nonePass(fs)(x) = not anyPass(fs)(x), and anyPass(fs)(x) is true
\* exactly when some predicate of fs is true on x; so nonePass([])(x) is true
\* and anyPass([])(x) is false.
C15_NonePass ==
  LET some == \E i \in 1..Len(inp.fs) : PredApp(inp.fs[i], inp.x)
  IN  /\ ret.fn = "anyPass" =>
           /\ ret.v = some
           /\ inp.fs = <<>> => ret.v = FALSE
      /\ ret.fn = "nonePass" =>
           /\ ret.v = ~some
           /\ ret.v = ~PredApp(anyPass(inp.fs), inp.x)
           /\ inp.fs = <<>> => ret.v = TRUE

C15_Witness ==
  /\ ret.fn = "nonePass"
  /\ inp.fs = << <<"lt3">>, <<"even">> >>
  /\ inp.x = 5
  /\ ret.v = TRUE

\* C16: the lattice built by getMinMaxBoundedDistributiveLattice(O)(min, max)
\* has zero = min and one = max, and join(a, zero) = a and meet(a, one) = a
\* for every a of the carrier, the elements from min to max in the order O.
InCarrier == leq(inp.O, inp.min, inp.a) /\ leq(inp.O, inp.a, inp.max)

C16_BoundedLattice ==
  ret.fn \in {"join", "meet"} =>
    /\ ret.zero = inp.min
    /\ ret.one = inp.max
    /\ InCarrier => ret.v = inp.a

C16_Witness ==
  /\ ret.fn = "join"
  /\ inp.O = "desc"
  /\ inp.min = 3
  /\ inp.max = 0
  /\ inp.a = 2
  /\ InCarrier
  /\ ret.v = 2

\* C17: a failure of the effect propagates unchanged.  If running the first
\* computation of map, chain or ap fails, the whole computation fails with
\* that failure and nothing else runs: f is not called, the second
\* computation of ap is not invoked, and evalWriter and execWriter yield the
\* failure, not a partial log.  If the first computation succeeds and the
\* second one (ma of ap, f(a) of chain) fails, the whole computation fails
\* with that failure.  The same holds for an input of listen, pass, listens
\* and censor: no combinator recovers from a failure.
First(t) ==
  CASE t.op = "chain" -> t.ma
    [] t.op = "ap" -> t.mab
    [] OTHER -> t.fa

HasInput(t) ==
  t.op \in {"map", "chain", "ap", "listen", "pass", "listens", "censor"}

C17_FailurePropagates ==
  /\ (res.kind = "invoke" /\ HasInput(cur)) =>
       LET r1 == Sub(First(cur))
       IN  /\ ~Ok(r1) => /\ res.v = r1.v
                         /\ res.tr = Invoked(cur) \o r1.tr
           /\ (Ok(r1) /\ cur.op = "ap") =>
                LET r2 == Sub(cur.ma)
                IN  ~Ok(r2) => res.v = r2.v
           /\ (Ok(r1) /\ cur.op = "chain") =>
                LET r2 == Sub(CallK(cur.f, Fst(Out(r1))).v)
                IN  ~Ok(r2) => res.v = r2.v
  /\ (res.kind \in {"eval", "exec"} /\ Built) =>
       (~Ok(Sub(cur)) => res.v = Sub(cur).v)

C17_Witness ==
  /\ M = "Option"
  /\ res.kind = "invoke"
  /\ cur = ap(fail(TFn), given(Pair(Num(0), <<"y">>)))
  /\ res.v = None
  /\ res.tr = Invoked(cur) \o Invoked(fail(TFn))

\* The first computation succeeds and the second one fails.
C17_WitnessSecond ==
  /\ M = "Option"
  /\ res.kind = "invoke"
  /\ cur = chain(given(Pair(Num(0), <<"x", "y">>)), <<"failK">>)
  /\ res.v = None

\* What the invocation of cur did after invoking its first input.
AfterFirst == SubSeq(res.tr, 2 + Len(Sub(First(cur)).tr), Len(res.tr))

NoInvoke(tr) == \A i \in DOMAIN tr : tr[i][1] # "invoke"

IsInvoke(e, t) == e[1] = "invoke" /\ e[2] = t

IsCall(e, f) == e[1] = "call" /\ e[2] = f

\* Building a computation invokes nothing, and invoking it invokes its first
\* input computation at once and once.
LazyFirst ==
  /\ res.kind = "none" => res.tr = <<>>
  /\ res.kind = "invoke" =>
       /\ IsInvoke(res.tr[1], cur)
       /\ ~HasInput(cur) => res.tr = Invoked(cur)
       /\ HasInput(cur) =>
            LET r1 == Sub(First(cur))
            IN  /\ SubSeq(res.tr, 2, 1 + Len(r1.tr)) = r1.tr
                /\ cur.op \notin {"ap", "chain"} => NoInvoke(AfterFirst)

C18_WitnessOnce ==
  /\ res.kind = "invoke"
  /\ cur = ap(of(Fn(<<"inc">>)), given(Pair(Num(0), <<"y">>)))
  /\ res.tr = Invoked(cur) \o Invoked(cur.mab) \o Invoked(cur.ma)
                \o Called(<<"inc">>, Num(0))

\* C19: the plain Writer module is WriterT over the identity effect: for
\* every monoid and every computation built from tell, listen, pass, listens,
\* censor, map, of, ap and chain, invoking it, and evaluate / evalWriter and
\* execute / execWriter on it, yield what getWriterM(Identity) yields on the
\* same computation: the same result and the same log, with the same
\* invocations and calls in the same order.
OverIdentity == [lib |-> "WriterT", M |-> "Identity", W |-> W]

C19_WriterIsWriterTIdentity ==
  (lib = "Writer" /\ res.kind # "none") =>
    LET r == CASE res.kind = "invoke" -> Invoke(OverIdentity, cur)
               [] res.kind \in {"eval", "evaluate"} ->
                    WriterT_evalWriter(OverIdentity, cur)
               [] res.kind \in {"exec", "execute"} ->
                    WriterT_execWriter(OverIdentity, cur)
    IN  /\ res.v = r.v
        /\ res.tr = r.tr

C19_Witness ==
  /\ lib = "Writer"
  /\ W = "String"
  /\ res.kind = "execute"
  /\ cur = ap(given(Pair(Fn(<<"inc">>), <<"x">>)), given(Pair(Num(0), <<"y">>)))
  /\ res.v = <<"x", "y">>
  /\ res.v = WriterT_execWriter(OverIdentity, cur).v

====
